---- MODULE Spec2Model ----
(***************************************************************************)
(* Model of naver_realtime_scraper.py: the text and link normalizers, the  *)
(* keyword and article extractors, the fallback keyword deriver and the    *)
(* collect() orchestration around one Selenium driver.                     *)
(*                                                                         *)
(* A Python str is modelled as a sequence of Unicode code points, so that  *)
(* len(), startswith(), "in", re.sub() and split() are computed and not    *)
(* assumed.                                                                *)
(***************************************************************************)
EXTENDS Integers, Sequences, FiniteSets, TLC

(***************************************************************************)
(* Bounds of the model.                                                    *)
(***************************************************************************)
\* most anchors / keyword rows a generated page holds
MaxAnchors == 11
\* longest input sequence handed to unique_top in SpecUniqueTop
MaxVals == 5
\* largest limit handed to unique_top in SpecUniqueTop
MaxLimit == 3

(***************************************************************************)
(* Program constants.                                                      *)
(***************************************************************************)
\* unique_top(raw, 10), len(dedup) >= 10, most_common(10), [:10]
TopN == 10
\* if len(title) < 4
MinTitleLen == 4
\* if len(w) < 2
MinWordLen == 2

(***************************************************************************)
(* Strings.                                                                *)
(***************************************************************************)
\* the characters Python's \s (and str.strip, str.split) treat as whitespace
WhitespaceChars ==
    {9, 10, 11, 12, 13, 28, 29, 30, 31, 32, 133, 160, 5760} \cup (8192..8202)
        \cup {8232, 8233, 8239, 8287, 12288}

IsSpace(c) == c \in WhitespaceChars

\* s.startswith(p)
StartsWith(s, p) == Len(s) >= Len(p) /\ SubSeq(s, 1, Len(p)) = p

\* p in s
Contains(s, p) ==
    \E i \in 1..(Len(s) - Len(p) + 1) : SubSeq(s, i, i + Len(p) - 1) = p

\* re.sub(r"\s+", " ", s): every maximal run of whitespace becomes one space
RECURSIVE CollapseWs(_)
CollapseWs(s) ==
    IF s = <<>> THEN <<>>
    ELSE IF IsSpace(Head(s))
         THEN IF Len(s) > 1 /\ IsSpace(s[2])
              THEN CollapseWs(Tail(s))
              ELSE <<32>> \o CollapseWs(Tail(s))
         ELSE <<Head(s)>> \o CollapseWs(Tail(s))

RECURSIVE LStrip(_)
LStrip(s) == IF s # <<>> /\ IsSpace(Head(s)) THEN LStrip(Tail(s)) ELSE s

RECURSIVE RStrip(_)
RStrip(s) ==
    IF s # <<>> /\ IsSpace(s[Len(s)]) THEN RStrip(SubSeq(s, 1, Len(s) - 1)) ELSE s

\* s.strip()
Strip(s) == RStrip(LStrip(s))

\* re.sub(r"\s+", " ", s).strip()
NormalizeText(s) == Strip(CollapseWs(s))

\* s.split(): the maximal runs of non-whitespace characters, in order
RECURSIVE SplitWs(_, _)
SplitWs(s, cur) ==
    IF s = <<>> THEN (IF cur = <<>> THEN <<>> ELSE <<cur>>)
    ELSE IF IsSpace(Head(s))
         THEN (IF cur = <<>> THEN <<>> ELSE <<cur>>) \o SplitWs(Tail(s), <<>>)
         ELSE SplitWs(Tail(s), Append(cur, Head(s)))

Split(s) == SplitWs(s, <<>>)

\* decimal digits of a natural number, as characters
RECURSIVE Digits(_)
Digits(n) == IF n < 10 THEN <<48 + n>> ELSE Digits(n \div 10) \o <<48 + (n % 10)>>

(***************************************************************************)
(* unique_top                                                              *)
(***************************************************************************)
\* unique_top with "t in seen" never true
RECURSIVE UniqueTopLoopNoSeen(_, _, _, _)
UniqueTopLoopNoSeen(values, limit, out, seen) ==
    IF values = <<>> THEN out
    ELSE LET t == NormalizeText(Head(values)) IN
         IF t = <<>>
         THEN UniqueTopLoopNoSeen(Tail(values), limit, out, seen)
         ELSE IF Len(out) + 1 >= limit
              THEN Append(out, t)
              ELSE UniqueTopLoopNoSeen(Tail(values), limit, Append(out, t), seen)

\* the for loop of unique_top over the values still to read
RECURSIVE UniqueTopLoop(_, _, _, _)
UniqueTopLoop(values, limit, out, seen) ==
    IF values = <<>> THEN out
    ELSE LET t == NormalizeText(Head(values)) IN
         IF t = <<>> \/ t \in seen
         THEN UniqueTopLoop(Tail(values), limit, out, seen)
         ELSE IF Len(out) + 1 >= limit
              THEN Append(out, t)
              ELSE UniqueTopLoop(Tail(values), limit, Append(out, t), seen \cup {t})

unique_top(values, limit) == UniqueTopLoop(values, limit, <<>>, {})

(***************************************************************************)
(* normalize_article_href                                                  *)
(***************************************************************************)
\* "http://", "https://", "https:", "//", "/", "https://news.naver.com"
HttpPrefix == <<104, 116, 116, 112, 58, 47, 47>>
HttpsPrefix == <<104, 116, 116, 112, 115, 58, 47, 47>>
HttpsScheme == <<104, 116, 116, 112, 115, 58>>
Slash == <<47>>
Origin ==
    <<104, 116, 116, 112, 115, 58, 47, 47, 110, 101, 119, 115, 46, 110, 97, 118,
      101, 114, 46, 99, 111, 109>>
\* "/article/"
ArticleMarker == <<47, 97, 114, 116, 105, 99, 108, 101, 47>>

normalize_article_href(href) ==
    IF href = <<>> THEN <<>>
    ELSE IF StartsWith(href, HttpPrefix) \/ StartsWith(href, HttpsPrefix) THEN href
    ELSE IF StartsWith(href, Slash \o Slash) THEN HttpsScheme \o href
    ELSE IF StartsWith(href, Slash) THEN Origin \o href
    ELSE Origin \o Slash \o href

(***************************************************************************)
(* scrape_popular_articles: the parsing of one rendered ranking page.      *)
(* A page is given by what soup.select returns for each of the five        *)
(* selectors: a sequence of anchors [text, href], text being               *)
(* a.get_text(" ", strip=True) and href being a.get("href", "").           *)
(***************************************************************************)
\* the urls list has two entries
NumUrls == 2

RECURSIVE Flatten(_)
Flatten(ss) == IF ss = <<>> THEN <<>> ELSE Head(ss) \o Flatten(Tail(ss))

\* what one anchor becomes: title and href as lines 155-156 compute them
ArticleOf(a) ==
    [title |-> NormalizeText(a.text), href |-> normalize_article_href(a.href)]

\* the two "continue" tests of lines 157-160, negated
KeepArticle(item) ==
    /\ ~(Len(item.title) < MinTitleLen)
    /\ Contains(item.href, ArticleMarker)

\* lines 152-161: raw, over all selectors in order
RECURSIVE RawLoop(_)
RawLoop(anchors) ==
    IF anchors = <<>> THEN <<>>
    ELSE LET item == ArticleOf(Head(anchors)) IN
         IF KeepArticle(item) THEN <<item>> \o RawLoop(Tail(anchors))
         ELSE RawLoop(Tail(anchors))

RawArticles(selected) == RawLoop(Flatten(selected))

\* the dedup loop with "key in seen" never true
RECURSIVE DedupLoopNoSeen(_, _, _)
DedupLoopNoSeen(raw, dedup, seen) ==
    IF raw = <<>> THEN [full |-> FALSE, items |-> dedup]
    ELSE IF Len(dedup) + 1 >= TopN
         THEN [full |-> TRUE, items |-> Append(dedup, Head(raw))]
         ELSE DedupLoopNoSeen(Tail(raw), Append(dedup, Head(raw)), seen)

\* lines 163-172: [full |-> TRUE] is the "return dedup" of line 172; with
\* full = FALSE the loop ended and the function goes on to the next url
RECURSIVE DedupLoop(_, _, _)
DedupLoop(raw, dedup, seen) ==
    IF raw = <<>> THEN [full |-> FALSE, items |-> dedup]
    ELSE LET key == <<Head(raw).title, Head(raw).href>> IN
         IF key \in seen THEN DedupLoop(Tail(raw), dedup, seen)
         ELSE IF Len(dedup) + 1 >= TopN
              THEN [full |-> TRUE, items |-> Append(dedup, Head(raw))]
              ELSE DedupLoop(Tail(raw), Append(dedup, Head(raw)), seen \cup {key})

\* the dedup loop followed by "if dedup: return dedup"
DedupReturnsPartial(raw) ==
    LET r == DedupLoop(raw, <<>>, {}) IN [full |-> r.items # <<>>, items |-> r.items]

Dedup(raw) == DedupLoop(raw, <<>>, {})

\* the outcome of parsing one rendered page
ParseRanking(selected) == Dedup(RawArticles(selected))

(***************************************************************************)
(* derive_keywords_from_articles                                           *)
(***************************************************************************)
StopWords ==
    { <<44592, 51088>>, <<45684, 49828>>, <<50724, 45720>>, <<51221, 48512>>,
      <<49884, 51109>>, <<54620, 44397>>, <<49549, 48372>>, <<44288, 47144>>,
      <<45824, 54620>> }

\* the class [0-9A-Za-z가-힣\s]
IsWordChar(c) ==
    \/ c \in 48..57
    \/ c \in 65..90
    \/ c \in 97..122
    \/ c \in 44032..55203
    \/ IsSpace(c)

\* re.sub(r"[^0-9A-Za-z가-힣\s]", " ", title)
RECURSIVE CleanTitle(_)
CleanTitle(s) ==
    IF s = <<>> THEN <<>>
    ELSE <<IF IsWordChar(Head(s)) THEN Head(s) ELSE 32>> \o CleanTitle(Tail(s))

\* the words of one title that are counted (lines 193-197)
RECURSIVE FilterWords(_)
FilterWords(ws) ==
    IF ws = <<>> THEN <<>>
    ELSE LET w == Strip(Head(ws)) IN
         IF Len(w) < MinWordLen \/ w \in StopWords THEN FilterWords(Tail(ws))
         ELSE <<w>> \o FilterWords(Tail(ws))

CountedWords(title) == FilterWords(Split(CleanTitle(title)))

\* c[w] += 1 on a Counter, kept in the order of first insertion as a dict is
RECURSIVE CounterAdd(_, _)
CounterAdd(c, w) ==
    IF c = <<>> THEN <<[w |-> w, n |-> 1]>>
    ELSE IF Head(c).w = w THEN <<[w |-> w, n |-> Head(c).n + 1]>> \o Tail(c)
    ELSE <<Head(c)>> \o CounterAdd(Tail(c), w)

RECURSIVE CounterAddAll(_, _)
CounterAddAll(c, ws) ==
    IF ws = <<>> THEN c ELSE CounterAddAll(CounterAdd(c, Head(ws)), Tail(ws))

RECURSIVE CountTitles(_, _)
CountTitles(c, articles) ==
    IF articles = <<>> THEN c
    ELSE CountTitles(CounterAddAll(c, CountedWords(Head(articles).title)), Tail(articles))

\* the highest count of a Counter, m being the highest seen so far
RECURSIVE MaxCount(_, _)
MaxCount(c, m) ==
    IF c = <<>> THEN m
    ELSE MaxCount(Tail(c), IF Head(c).n > m THEN Head(c).n ELSE m)

\* the first word counted m times, and the Counter without it
RECURSIVE FirstWith(_, _)
FirstWith(c, m) == IF Head(c).n = m THEN Head(c).w ELSE FirstWith(Tail(c), m)

RECURSIVE WithoutFirstWith(_, _)
WithoutFirstWith(c, m) ==
    IF Head(c).n = m THEN Tail(c) ELSE <<Head(c)>> \o WithoutFirstWith(Tail(c), m)

\* Counter.most_common(k): by count, highest first; equal counts keep the
\* order of first insertion
RECURSIVE MostCommon(_, _)
MostCommon(c, k) ==
    IF k = 0 \/ c = <<>> THEN <<>>
    ELSE LET m == MaxCount(c, 0) IN
         <<FirstWith(c, m)>> \o MostCommon(WithoutFirstWith(c, m), k - 1)

derive_keywords_from_articles(articles) == MostCommon(CountTitles(<<>>, articles), TopN)

(***************************************************************************)
(* scrape_realtime_keywords: the parsing of the rendered trends page.        *)
(* A page is [tbody, rows]: whether soup.find("tbody", ...) finds the      *)
(* table body, and for each tr of it whether the keyword div is there and  *)
(* what its get_text(strip=True) is.                                       *)
(***************************************************************************)
RECURSIVE RowTexts(_)
RowTexts(rows) ==
    IF rows = <<>> THEN <<>>
    ELSE IF Head(rows).div THEN <<Head(rows).text>> \o RowTexts(Tail(rows))
         ELSE RowTexts(Tail(rows))

ParseTrends(page) ==
    IF ~page.tbody THEN <<>>
    ELSE IF page.rows = <<>> THEN <<>>
    ELSE unique_top(RowTexts(page.rows), TopN)

(***************************************************************************)
(* The pages the browser may render: the inputs of the model.              *)
(***************************************************************************)
TitleKinds == {"stop", "words"}
Layouts == {"plain", "overlap", "spread", "noisy", "twohosts"}
Offsets == {0, 5}

\* "속보 오늘 뉴스": stop words only
StopTitle == <<49549, 48372, 32, 50724, 45720, 32, 45684, 49828>>
\* "속보 주제<i> 심화!"
WordTitle(i) == <<49549, 48372, 32, 51452, 51228>> \o Digits(i) \o <<32, 49900, 54868, 33>>
\* the same headline as the browser may hand it over: "속보  주제<i> \n심화!"
WordTitlePadded(i) ==
    <<49549, 48372, 32, 32, 51452, 51228>> \o Digits(i) \o <<32, 10, 49900, 54868, 33>>

TitleText(kind, i) == IF kind = "stop" THEN StopTitle ELSE WordTitle(i)
TitleTextPadded(kind, i) ==
    IF kind = "stop" THEN <<32>> \o StopTitle \o <<9>> ELSE WordTitlePadded(i)

\* "/article/<i>", "article/<i>", "https://n.news.naver.com/article/<i>",
\* "//n.news.naver.com/article/<i>", "/main/ranking/office.naver"
HrefRoot(i) == <<47, 97, 114, 116, 105, 99, 108, 101, 47>> \o Digits(i)
HrefBare(i) == <<97, 114, 116, 105, 99, 108, 101, 47>> \o Digits(i)
HrefAbs(i) ==
    <<104, 116, 116, 112, 115, 58, 47, 47, 110, 46, 110, 101, 119, 115, 46, 110, 97,
      118, 101, 114, 46, 99, 111, 109, 47, 97, 114, 116, 105, 99, 108, 101, 47>>
        \o Digits(i)
HrefProto(i) ==
    <<47, 47, 110, 46, 110, 101, 119, 115, 46, 110, 97, 118, 101, 114, 46, 99, 111,
      109, 47, 97, 114, 116, 105, 99, 108, 101, 47>> \o Digits(i)
HrefOffice ==
    <<47, 109, 97, 105, 110, 47, 114, 97, 110, 107, 105, 110, 103, 47, 111, 102, 102,
      105, 99, 101, 46, 110, 97, 118, 101, 114>>

\* anchors the extractor must drop: a title of 2 characters ("뉴스"), one of 3
\* after normalization (" a  b "), a link to a press office, no href at all
JunkAnchors(kind, i) ==
    << [text |-> <<45684, 49828>>, href |-> HrefRoot(i)],
       [text |-> <<32, 97, 32, 32, 98, 32>>, href |-> HrefAbs(i)],
       [text |-> TitleText(kind, i), href |-> HrefOffice],
       [text |-> TitleText(kind, i), href |-> <<>>] >>

\* anchors lo..hi, each built by F(i)
RECURSIVE AnchorRun(_, _, _)
AnchorRun(F(_), lo, hi) ==
    IF lo > hi THEN <<>> ELSE F(lo) \o AnchorRun(F, lo + 1, hi)

RankingPage(kind, layout, off, n) ==
    LET Root(i) == << [text |-> TitleText(kind, off + i), href |-> HrefRoot(off + i)] >>
        Bare(i) == << [text |-> TitleTextPadded(kind, off + i), href |-> HrefBare(off + i)] >>
        Abs(i) == << [text |-> TitleText(kind, off + i), href |-> HrefAbs(off + i)] >>
        Proto(i) == << [text |-> TitleTextPadded(kind, off + i), href |-> HrefProto(off + i)] >>
        Noisy(i) == << JunkAnchors(kind, off + i)[(i % 4) + 1] >> \o Root(i)
        h == n \div 2
    IN CASE layout = "plain" ->
              << AnchorRun(Root, 1, n), <<>>, <<>>, <<>>, <<>> >>
         [] layout = "overlap" ->
              << AnchorRun(Root, 1, n), AnchorRun(Bare, 1, n), <<>>,
                 JunkAnchors(kind, off + 1), <<>> >>
         [] layout = "spread" ->
              << <<>>, AnchorRun(Proto, 1, h), AnchorRun(Abs, h + 1, n), <<>>,
                 JunkAnchors(kind, off + 1) >>
         [] layout = "noisy" ->
              << AnchorRun(Noisy, 1, n), <<>>, <<>>, <<>>, <<>> >>
         [] layout = "twohosts" ->
              << AnchorRun(Root, 1, h), AnchorRun(Abs, 1, h), <<>>, <<>>,
                 AnchorRun(Proto, 1, h) >>

RankingPages ==
    { RankingPage(kind, layout, off, n) :
        kind \in TitleKinds, layout \in Layouts, off \in Offsets, n \in 0..MaxAnchors }

\* each page with what lines 150-172 make of it
RankingRenderings == { [page |-> p, parsed |-> ParseRanking(p)] : p \in RankingPages }

\* "오늘 날씨<i>" and the same with "오늘 \t 날씨<i>"
KwText(i) == <<50724, 45720, 32, 45216, 50472>> \o Digits(i)
KwTextWide(i) == <<50724, 45720, 32, 9, 32, 45216, 50472>> \o Digits(i)

KwLayouts == {"plain", "dups", "nodiv", "blank"}

TrendsPage(layout, n) ==
    LET Plain(i) == << [div |-> TRUE, text |-> KwText(i)] >>
        Dups(i) == << [div |-> TRUE, text |-> KwText(i)],
                      [div |-> TRUE, text |-> KwTextWide(i)] >>
        NoDiv(i) == << [div |-> FALSE, text |-> <<>>] >>
        Blank(i) == << [div |-> TRUE, text |-> <<>>], [div |-> FALSE, text |-> <<>>] >>
    IN [tbody |-> TRUE,
        rows |-> CASE layout = "plain" -> AnchorRun(Plain, 1, n)
                   [] layout = "dups" -> AnchorRun(Dups, 1, n)
                   [] layout = "nodiv" -> AnchorRun(NoDiv, 1, n)
                   [] layout = "blank" -> AnchorRun(Blank, 1, n)]

TrendsPages ==
    {[tbody |-> FALSE, rows |-> <<>>]}
        \cup { TrendsPage(layout, n) : layout \in KwLayouts, n \in 0..MaxAnchors }

\* raw strings for unique_top: "", " ", " a ", "a\t\nb", "a b", "b"
RawStrings ==
    { <<>>, <<32>>, <<32, 97, 32>>, <<97, 9, 10, 98>>, <<97, 32, 98>>, <<98>> }

RECURSIVE SeqsUpTo(_, _)
SeqsUpTo(S, n) ==
    IF n = 0 THEN {<<>>}
    ELSE LET shorter == SeqsUpTo(S, n - 1) IN
         shorter \cup {Append(q, x) : q \in {r \in shorter : Len(r) = n - 1}, x \in S}

(***************************************************************************)
(* State.                                                                  *)
(***************************************************************************)
VARIABLES
    pc,         \* where collect() is
    driver,     \* "none", "open" or "quit"
    driverLog,  \* the calls made on the driver, in order
    exc,        \* the exception in flight out of the scrape functions
    keywords,   \* collect's local keywords
    articles,   \* collect's local articles
    warnings,   \* collect's local warnings
    result,     \* what collect returned
    urlIdx,     \* scrape_popular_articles: the index of the next url
    tried,      \* per url already left behind: how the attempt ended
    kwStatus,   \* how scrape_realtime_keywords ended: "ok" or what was raised
    kwReturned, \* what scrape_realtime_keywords returned, if it returned
    soup,       \* the ranking page whose parse was returned, if any
    utValues,   \* unique_top on its own: the input sequence
    utLimit,    \* unique_top on its own: the limit
    utOut,      \* unique_top on its own: the list returned
    utPc        \* unique_top on its own: "call" or "done"

collectVars ==
    <<pc, driver, driverLog, exc, keywords, articles, warnings, result, urlIdx,
      tried, kwStatus, kwReturned, soup>>
utVars == <<utValues, utLimit, utOut, utPc>>
vars == <<collectVars, utVars>>

\* what a call may raise: selenium's two exceptions, or anything else
ExcKinds == {"TimeoutException", "WebDriverException", "Error"}

CaughtTimeoutOnly == {"TimeoutException"}

\* except (TimeoutException, WebDriverException) of lines 127 and 173
Caught == {"TimeoutException", "WebDriverException"}

TrendsUrl == "https://trends.google.com/trending?geo=KR&hours=4"
RankingUrls ==
    << "https://news.naver.com/main/ranking/popularDay.naver",
       "https://news.naver.com/main/ranking/popularDay.naver?mid=etc&sid1=111" >>

WarnDriverStart == "Chrome WebDriver start failed: <e>"
WarnDriverHint == "check the Chrome installation or Selenium Manager network access"
WarnFallback == "keywords replaced by keywords derived from article titles"
WarnNoKeywords == "no keywords produced"
WarnNoArticles == "no popular articles collected"

\* driver.get(url); wait_dom_ready(driver); driver.page_source: the calls made
\* on the driver when the step failAt raises ("none", "parse": all three made);
\* time.sleep(5) changes nothing
RenderCalls(url, failAt) ==
    LET get == [call |-> "get", url |-> url]
        wait == [call |-> "execute_script", url |-> url]
        src == [call |-> "page_source", url |-> url]
    IN CASE failAt = "get" -> <<get>>
         [] failAt = "wait" -> <<get, wait>>
         [] OTHER -> <<get, wait, src>>

\* the steps of one page's try block that may raise
FailPoints == {"get", "wait", "page_source", "parse"}

\* s[:n]
Take(s, n) == SubSeq(s, 1, IF Len(s) < n THEN Len(s) ELSE n)

CollectInit ==
    /\ pc = "build"
    /\ driver = "none"
    /\ driverLog = <<>>
    /\ exc = "none"
    /\ keywords = <<>>
    /\ articles = <<>>
    /\ warnings = <<>>
    /\ result = <<>>
    /\ urlIdx = 1
    /\ tried = <<>>
    /\ kwStatus = "none"
    /\ kwReturned = <<>>
    /\ soup = <<>>

UtIdle ==
    /\ utValues = <<>>
    /\ utLimit = 1
    /\ utOut = <<>>
    /\ utPc = "idle"

Init == CollectInit /\ UtIdle

(***************************************************************************)
(* collect                                                                 *)
(***************************************************************************)
\* lines 207-217: build_driver returns, raises WebDriverException (caught at
\* line 209), or raises something else (ChromeDriverManager().install()
\* downloads the driver), which no except clause of collect matches
BuildDriver ==
    /\ pc = "build"
    /\ \E outcome \in {"ok", "WebDriverException", "Error"} :
         CASE outcome = "ok" ->
                /\ driver' = "open"
                /\ pc' = "keywords"
                /\ UNCHANGED <<result, exc>>
           [] outcome = "WebDriverException" ->
                /\ result' = [keywords |-> <<>>,
                              articles |-> <<>>,
                              warnings |-> <<WarnDriverStart, WarnDriverHint>>]
                /\ pc' = "returned"
                /\ UNCHANGED <<driver, exc>>
           [] OTHER ->
                /\ exc' = outcome
                /\ pc' = "raised"
                /\ UNCHANGED <<driver, result>>
    /\ UNCHANGED <<driverLog, keywords, articles, warnings, urlIdx, tried, kwStatus,
                   kwReturned, soup>>
    /\ UNCHANGED utVars

\* line 220 with lines 103-128: the page is rendered and parsed, or one of
\* driver.get, wait_dom_ready, driver.page_source or the parsing raises
ScrapeKeywords ==
    /\ pc = "keywords"
    /\ \/ \E page \in TrendsPages :
            /\ driverLog' = driverLog \o RenderCalls(TrendsUrl, "none")
            /\ keywords' = ParseTrends(page)
            /\ kwReturned' = ParseTrends(page)
            /\ kwStatus' = "ok"
            /\ pc' = "articles"
            /\ exc' = exc
       \/ \E failAt \in FailPoints, kind \in ExcKinds :
            /\ driverLog' = driverLog \o RenderCalls(TrendsUrl, failAt)
            /\ kwStatus' = kind
            /\ kwReturned' = <<>>
            /\ IF kind \in Caught
               THEN /\ keywords' = <<>>
                    /\ pc' = "articles"
                    /\ exc' = exc
               ELSE /\ keywords' = keywords
                    /\ pc' = "finally"
                    /\ exc' = kind
    /\ UNCHANGED <<driver, articles, warnings, result, urlIdx, tried, soup>>
    /\ UNCHANGED utVars

\* line 221 with one pass of the loop of lines 145-174
ScrapeArticlesUrl ==
    /\ pc = "articles"
    /\ urlIdx <= NumUrls
    /\ \/ \E r \in RankingRenderings :
            LET page == r.page
                parsed == r.parsed
            IN
            /\ driverLog' = driverLog \o RenderCalls(RankingUrls[urlIdx], "none")
            /\ IF parsed.full
               THEN /\ articles' = parsed.items
                    /\ soup' = page
                    /\ pc' = "finally"
                    /\ UNCHANGED <<urlIdx, tried, exc>>
               ELSE /\ urlIdx' = urlIdx + 1
                    /\ tried' = Append(tried, [status |-> "ok", found |-> Len(parsed.items)])
                    /\ UNCHANGED <<articles, soup, pc, exc>>
       \/ \E failAt \in FailPoints, kind \in ExcKinds :
            /\ driverLog' = driverLog \o RenderCalls(RankingUrls[urlIdx], failAt)
            /\ IF kind \in Caught
               THEN /\ urlIdx' = urlIdx + 1
                    /\ tried' = Append(tried, [status |-> kind, found |-> 0])
                    /\ UNCHANGED <<articles, soup, pc, exc>>
               ELSE /\ exc' = kind
                    /\ pc' = "finally"
                    /\ UNCHANGED <<articles, soup, urlIdx, tried>>
    /\ UNCHANGED <<driver, keywords, warnings, result, kwStatus, kwReturned>>
    /\ UNCHANGED utVars

\* line 176: no url is left
ScrapeArticlesExhausted ==
    /\ pc = "articles"
    /\ urlIdx > NumUrls
    /\ articles' = <<>>
    /\ pc' = "finally"
    /\ UNCHANGED <<driver, driverLog, exc, keywords, warnings, result, urlIdx, tried,
                   kwStatus, kwReturned, soup>>
    /\ UNCHANGED utVars

\* a try block without its finally clause: the driver is quit only when the
\* scraping returned
FinallyOnlyOnReturn ==
    /\ pc = "finally"
    /\ IF exc = "none"
       THEN /\ driverLog' = Append(driverLog, [call |-> "quit", url |-> ""])
            /\ driver' = "quit"
            /\ pc' = "assemble"
       ELSE /\ pc' = "raised"
            /\ UNCHANGED <<driverLog, driver>>
    /\ UNCHANGED <<exc, keywords, articles, warnings, result, urlIdx, tried, kwStatus,
                   kwReturned, soup>>
    /\ UNCHANGED utVars

\* lines 222-223: driver.quit(), then the exception in flight, if any, goes on
\* to the caller of collect
Finally ==
    /\ pc = "finally"
    /\ driverLog' = Append(driverLog, [call |-> "quit", url |-> ""])
    /\ driver' = "quit"
    /\ pc' = IF exc = "none" THEN "assemble" ELSE "raised"
    /\ UNCHANGED <<exc, keywords, articles, warnings, result, urlIdx, tried, kwStatus,
                   kwReturned, soup>>
    /\ UNCHANGED utVars

\* lines 225-228: keywords after the fallback, alt being what line 226 computes
KeywordsAfterFallback(kw, alt) == IF kw = <<>> /\ alt # <<>> THEN alt ELSE kw

KeywordWarningsAlwaysFallback(kw, alt) == IF kw = <<>> THEN <<WarnFallback>> ELSE <<>>

\* lines 225-231: the warning the keywords add
KeywordWarnings(kw, alt) ==
    IF kw = <<>>
    THEN (IF alt # <<>> THEN <<WarnFallback>> ELSE <<WarnNoKeywords>>)
    ELSE <<>>

ArticleWarningsNone(arts) == <<>>

\* lines 233-234: the warning the articles add
ArticleWarnings(arts) == IF arts = <<>> THEN <<WarnNoArticles>> ELSE <<>>

\* lines 225-241
Assemble ==
    /\ pc = "assemble"
    /\ \E alt \in {derive_keywords_from_articles(articles)} :
         LET kw == KeywordsAfterFallback(keywords, alt)
             ws == warnings \o KeywordWarnings(keywords, alt) \o ArticleWarnings(articles)
         IN /\ keywords' = kw
            /\ warnings' = ws
            /\ result' = [updatedAt |-> "now",
                          keywords |-> Take(kw, TopN),
                          articles |-> Take(articles, TopN),
                          warnings |-> ws]
    /\ pc' = "returned"
    /\ UNCHANGED <<driver, driverLog, exc, articles, urlIdx, tried, kwStatus, kwReturned,
                   soup>>
    /\ UNCHANGED utVars

Next ==
    \/ BuildDriver
    \/ ScrapeKeywords
    \/ ScrapeArticlesUrl
    \/ ScrapeArticlesExhausted
    \/ Finally
    \/ Assemble

Spec == Init /\ [][Next]_vars

(***************************************************************************)
(* unique_top on its own                                                   *)
(***************************************************************************)
UtInit ==
    /\ CollectInit
    /\ utValues \in SeqsUpTo(RawStrings, MaxVals)
    /\ utLimit \in 1..MaxLimit
    /\ utOut = <<>>
    /\ utPc = "call"

UniqueTopCall ==
    /\ utPc = "call"
    /\ utOut' = unique_top(utValues, utLimit)
    /\ utPc' = "done"
    /\ UNCHANGED <<utValues, utLimit>>
    /\ UNCHANGED collectVars

SpecUniqueTop == UtInit /\ [][UniqueTopCall]_vars

(***************************************************************************)
(* Properties.                                                             *)
(***************************************************************************)
\* collect has ended: it returned a record or an exception left it
Terminal == pc \in {"returned", "raised"}

\* scrape_popular_articles has ended (returned or raised)
ArticlesLeft == pc \in {"finally", "assemble", "returned", "raised"}

\* the positions of the calls of one kind in the driver's log
CallsOf(name) == {i \in 1..Len(driverLog) : driverLog[i].call = name}

\* the urls navigated to, in order
IsGet(c) == c.call = "get"
RECURSIVE UrlsOf(_)
UrlsOf(calls) == IF calls = <<>> THEN <<>> ELSE <<Head(calls).url>> \o UrlsOf(Tail(calls))
Navigated == UrlsOf(SelectSeq(driverLog, IsGet))

\* how often a warning occurs in a list of warnings
CountOf(w, ws) == Cardinality({i \in 1..Len(ws) : ws[i] = w})

\* the exceptions the spec calls recoverable: timeout and automation error
Recoverable == {"TimeoutException", "WebDriverException"}

\* C1: collect never raises to its caller: whatever driver construction,
\* navigation, the DOM-ready wait and parsing do, collect ends by returning a
\* record.  The code lets every exception that is not a WebDriverException
\* through, so this is violated.
C1_CollectNeverRaises == pc # "raised"

\* C2: when the driver was constructed it is quit exactly once before collect
\* exits, on every exit path (also when scraping raised); quit is the last
\* call ever made on the driver; and nothing is called on a driver that was
\* never constructed.
C2_DriverReleasedOnce ==
    /\ Cardinality(CallsOf("quit")) <= 1
    /\ \A i \in CallsOf("quit") : i = Len(driverLog)
    /\ (driver = "none") => (driverLog = <<>>)
    /\ (driver = "quit") <=> (CallsOf("quit") # {})
    /\ (pc \in {"assemble", "returned", "raised"} /\ driver # "none")
          => (driver = "quit" /\ Cardinality(CallsOf("quit")) = 1)

\* an exception raised inside article scraping left collect, after the
\* keywords page and a ranking page were navigated to, and the driver was quit
C2_Witness ==
    /\ pc = "raised"
    /\ exc = "Error"
    /\ kwStatus = "ok"
    /\ Len(Navigated) >= 2
    /\ driver = "quit"

\* C3: if constructing the driver fails, collect returns a result with empty
\* keywords, empty articles and exactly the two driver warnings, and no
\* extractor and no fallback ran.  A construction failure that is not a
\* WebDriverException leaves collect as an exception instead (see C1).
C3_DriverFailureResult ==
    (Terminal /\ driver = "none") =>
        /\ pc = "returned"
        /\ result.keywords = <<>>
        /\ result.articles = <<>>
        /\ result.warnings = <<WarnDriverStart, WarnDriverHint>>
        /\ driverLog = <<>>
        /\ kwStatus = "none"
        /\ tried = <<>>
        /\ urlIdx = 1

\* C4 as stated: whenever the keyword extractor returned an empty list and
\* the article extractor returned at least one article, the result's keywords
\* are the derived keywords and warnings holds exactly one fallback notice.
C4_FallbackAlwaysNoticed ==
    (pc = "returned" /\ driver # "none" /\ kwReturned = <<>> /\ articles # <<>>) =>
        /\ result.keywords = Take(derive_keywords_from_articles(articles), TopN)
        /\ CountOf(WarnFallback, result.warnings) = 1

\* C4 amended: in such a run the result's keywords are the derived keywords;
\* warnings holds exactly one fallback notice (and no no-keywords warning)
\* when the derived list is non-empty, and exactly one no-keywords warning
\* (and no fallback notice) when the titles yield no keyword.
C4_Fallback ==
    (pc = "returned" /\ driver # "none" /\ kwReturned = <<>> /\ articles # <<>>) =>
        \E alt \in {derive_keywords_from_articles(articles)} :
            /\ result.keywords = Take(alt, TopN)
            /\ result.articles = articles
            /\ IF alt # <<>>
               THEN /\ CountOf(WarnFallback, result.warnings) = 1
                    /\ CountOf(WarnNoKeywords, result.warnings) = 0
               ELSE /\ CountOf(WarnFallback, result.warnings) = 0
                    /\ CountOf(WarnNoKeywords, result.warnings) = 1

\* the fallback was used: the keywords page rendered without any keyword,
\* ten articles were found and their titles gave ten keywords
C4_Witness ==
    /\ pc = "returned"
    /\ kwStatus = "ok"
    /\ kwReturned = <<>>
    /\ Len(articles) = TopN
    /\ Len(result.keywords) = TopN
    /\ result.warnings = <<WarnFallback>>

\* C5: every result returned has at least as many warnings as it has empty
\* lists among keywords and articles, and when both extractors returned empty
\* the result has empty keywords, empty articles and at least two warnings.
C5_WarningsExplainEmpty ==
    (pc = "returned") =>
        /\ Len(result.warnings) >=
              (IF result.keywords = <<>> THEN 1 ELSE 0)
                + (IF result.articles = <<>> THEN 1 ELSE 0)
        /\ (driver # "none" /\ kwReturned = <<>> /\ articles = <<>>) =>
              /\ result.keywords = <<>>
              /\ result.articles = <<>>
              /\ Len(result.warnings) >= 2

\* both extractors ran on rendered pages and returned empty
C5_Witness ==
    /\ pc = "returned"
    /\ kwStatus = "ok"
    /\ kwReturned = <<>>
    /\ Len(tried) = NumUrls
    /\ tried[1].status = "ok"
    /\ tried[2].status = "ok"
    /\ result.keywords = <<>>
    /\ result.articles = <<>>
    /\ result.warnings = <<WarnNoKeywords, WarnNoArticles>>

\* every anchor of a page as lines 155-156 read it, in document order of the
\* selectors
RECURSIVE ReadAll(_)
ReadAll(anchors) ==
    IF anchors = <<>> THEN <<>> ELSE <<ArticleOf(Head(anchors))>> \o ReadAll(Tail(anchors))

\* "/article/"
Marker == <<47, 97, 114, 116, 105, 99, 108, 101, 47>>

\* C6: scrape_popular_articles returns at most 10 entries, pairwise distinct
\* by (title, href), in first-seen order, none with a title of fewer than 4
\* characters or a normalized href without "/article/".  First-seen order:
\* the entries are, in order, the first occurrences of the acceptable anchors
\* of the page, none skipped.
C6_ArticlesBounded ==
    (pc = "finally" /\ exc = "none") =>
        /\ Len(articles) <= 10
        /\ \A i, j \in 1..Len(articles) :
              (i # j) => (<<articles[i].title, articles[i].href>>
                            # <<articles[j].title, articles[j].href>>)
        /\ \A i \in 1..Len(articles) :
              /\ Len(articles[i].title) >= 4
              /\ \E k \in 1..Len(articles[i].href) :
                    SubSeq(articles[i].href, k, k + 8) = Marker
        /\ (articles # <<>>) =>
              \E read \in {ReadAll(Flatten(soup))} :
                LET FirstAt(a) ==
                        CHOOSE k \in 1..Len(read) :
                            read[k] = a /\ \A j \in 1..(k - 1) : read[j] # a
                IN /\ \A i \in 1..Len(articles) :
                         \E k \in 1..Len(read) : read[k] = articles[i]
                   /\ \A i \in 1..(Len(articles) - 1) :
                         FirstAt(articles[i]) < FirstAt(articles[i + 1])
                   /\ \A k \in 1..FirstAt(articles[Len(articles)]) :
                         (Len(read[k].title) >= 4 /\ Contains(read[k].href, Marker))
                            => \E i \in 1..Len(articles) : articles[i] = read[k]

\* ten articles were returned from the second url, after the first one timed
\* out, from a page that holds anchors to drop and anchors to merge
C6_Witness ==
    /\ pc = "finally"
    /\ exc = "none"
    /\ Len(articles) = 10
    /\ Len(tried) = 1
    /\ tried[1].status = "TimeoutException"
    /\ Len(RawArticles(soup)) > 10
    /\ Len(Flatten(soup)) > Len(RawArticles(soup))

\* whitespace collapsed and trimmed: no whitespace at either end, and inside
\* only single spaces
IsNormalized(t) ==
    /\ t # <<>>
    /\ ~IsSpace(t[1])
    /\ ~IsSpace(t[Len(t)])
    /\ \A i \in 1..Len(t) : IsSpace(t[i]) => (t[i] = 32 /\ ~IsSpace(t[i + 1]))

\* the positions of the input where a non-empty normalized value occurs for
\* the first time
FirstSeen(values) ==
    {i \in 1..Len(values) :
        /\ NormalizeText(values[i]) # <<>>
        /\ \A j \in 1..(i - 1) : NormalizeText(values[j]) # NormalizeText(values[i])}

\* C7: for every input and every limit n >= 1, unique_top returns at most n
\* elements, each non-empty after whitespace collapse and trim, pairwise
\* distinct, and equal to the first n distinct non-empty normalized values of
\* the input in first-seen order.
C7_UniqueTop ==
    (utPc = "done") =>
        /\ Len(utOut) <= utLimit
        /\ \A i \in 1..Len(utOut) : IsNormalized(utOut[i])
        /\ \A i, j \in 1..Len(utOut) : (i # j) => (utOut[i] # utOut[j])
        /\ \/ Len(utOut) = utLimit
           \/ Len(utOut) = Cardinality(FirstSeen(utValues))
        /\ Len(utOut) <= Cardinality(FirstSeen(utValues))
        /\ \A k \in 1..Len(utOut) :
              \E i \in FirstSeen(utValues) :
                 /\ Cardinality({j \in FirstSeen(utValues) : j < i}) = k - 1
                 /\ utOut[k] = NormalizeText(utValues[i])

\* the limit cut the list short, and before the second element was taken
\* the loop passed a value empty after normalization and a repetition of an
\* earlier value written differently
C7_Witness ==
    /\ utPc = "done"
    /\ utLimit = 2
    /\ Len(utOut) = 2
    /\ Cardinality(FirstSeen(utValues)) > 2
    /\ \E k \in FirstSeen(utValues) :
          /\ NormalizeText(utValues[k]) = utOut[2]
          /\ \E i, j \in 1..(k - 1) :
                /\ i < j
                /\ utValues[i] # utValues[j]
                /\ NormalizeText(utValues[i]) = NormalizeText(utValues[j])
                /\ NormalizeText(utValues[i]) # <<>>
          /\ \E i \in 1..(k - 1) :
                utValues[i] # <<>> /\ NormalizeText(utValues[i]) = <<>>

\* C8: every record collect returns, on every path, has exactly the fields
\* updatedAt, keywords, articles and warnings.  The record of the
\* driver-start-failure path (lines 210-217) has no updatedAt.
C8_FourFields ==
    (pc = "returned") => (DOMAIN result = {"updatedAt", "keywords", "articles", "warnings"})

\* C9: a timeout or automation error while rendering a page is recovered per
\* page: during keyword extraction it leaves keywords empty and the first
\* ranking url is still navigated to; on the first ranking url the second is
\* still navigated to; on both, articles is empty, no exception is in flight
\* and collect goes on to assemble its result with the no-articles warning.
C9_PerPageRecovery ==
    /\ (kwStatus \in Recoverable) =>
          /\ kwReturned = <<>>
          /\ pc \in {"articles"} \cup {"finally", "assemble", "returned", "raised"}
          /\ ArticlesLeft =>
                /\ Len(Navigated) >= 2
                /\ Navigated[1] = TrendsUrl
                /\ Navigated[2] = RankingUrls[1]
    /\ (ArticlesLeft /\ tried # <<>> /\ tried[1].status \in Recoverable) =>
          /\ Len(Navigated) >= 3
          /\ Navigated[2] = RankingUrls[1]
          /\ Navigated[3] = RankingUrls[2]
    /\ (ArticlesLeft /\ Len(tried) = 2 /\ tried[1].status \in Recoverable
            /\ tried[2].status \in Recoverable) =>
          /\ articles = <<>>
          /\ exc = "none"
          /\ pc # "raised"
          /\ (pc = "returned") =>
                /\ result.articles = <<>>
                /\ CountOf(WarnNoArticles, result.warnings) = 1
    /\ (pc = "raised") => (exc \notin Recoverable)

\* all three pages failed to render, one by an automation error, and collect
\* returned its record
C9_Witness ==
    /\ pc = "returned"
    /\ kwStatus = "WebDriverException"
    /\ Len(tried) = 2
    /\ tried[1].status = "TimeoutException"
    /\ tried[2].status = "WebDriverException"
    /\ result.warnings = <<WarnNoKeywords, WarnNoArticles>>

\* C10: scrape_popular_articles returns an empty list or exactly 10 entries,
\* all from the page of one url; the urls are navigated to in order, the
\* second only if the first failed to render or yielded fewer than 10
\* entries; a url that yields 1 to 9 entries contributes nothing.
C10_AllFromOneUrl ==
    /\ \A i \in 1..Len(tried) : tried[i].found < 10
    /\ Len(tried) <= NumUrls
    /\ \A i \in 2..Len(Navigated) : Navigated[i] = RankingUrls[i - 1]
    /\ (Len(Navigated) >= 3) =>
          /\ tried # <<>>
          /\ \/ tried[1].status \in Recoverable
             \/ tried[1].status = "ok" /\ tried[1].found < 10
    /\ (ArticlesLeft /\ driver # "none" /\ exc = "none") =>
          /\ Len(articles) \in {0, 10}
          /\ (Len(tried) = NumUrls) => (articles = <<>>)
          /\ (articles # <<>>) =>
                /\ Len(Navigated) = Len(tried) + 2
                /\ \E read \in {ReadAll(Flatten(soup))} :
                      \A i \in 1..Len(articles) :
                         \E k \in 1..Len(read) : read[k] = articles[i]
          /\ (articles = <<>>) => (Len(tried) = NumUrls /\ soup = <<>>)

\* the first url yielded between 1 and 9 entries, the second one ten, and the
\* ten returned are not the first url's
C10_Witness ==
    /\ pc = "finally"
    /\ exc = "none"
    /\ Len(tried) = 1
    /\ tried[1].status = "ok"
    /\ tried[1].found \in 1..9
    /\ Len(articles) = 10
    /\ Len(Navigated) = 3

====
